---- MODULE Spec2Model ----
(***************************************************************************)
(* Browser client of the agent service: the two-mode chat session and the  *)
(* runs/ directory explorer with its navigable history.                    *)
(*                                                                         *)
(* Every event handler runs to its first await (or to its end) as one      *)
(* step; the continuation of an awaited fetch is a later step that may     *)
(* interleave with any other handler.  Texts and paths are sequences of    *)
(* one-character strings so that trim, split and join are computed.        *)
(* historyIndex is 0-based as in the source; At(h, i) reads h[i].          *)
(***************************************************************************)
EXTENDS Integers, Sequences, FiniteSets, Bags, TLC

VARIABLES
    runsHistory,      \* let runsHistory = [""]
    historyIndex,     \* let historyIndex = 0
    cwd,              \* let cwd = ""
    breadcrumb,       \* data-path of the spans in runsBreadcrumb, left to right
    filesView,        \* what filesEl shows
    listFetches,      \* bag of the paths of the /api/runs/list fetches in flight
    mode,             \* let mode = null   ('convo' | 'full')
    fullUsed,         \* let fullUsed = false
    transcript,       \* the children of chatEl, in order
    chatRequests,     \* the chat fetches in flight, each awaited by one handler
    sendDisabled,     \* sendBtn.disabled
    thinking,         \* typingEl shown
    nextReq,          \* number of the next handler run that appends to chatEl
    validationFetches,\* number of /api/validation fetches in flight
    validationView,   \* what validationBodyEl shows
    last              \* the handler or continuation that ran last, and its input

vars == <<runsHistory, historyIndex, cwd, breadcrumb, filesView, listFetches,
          mode, fullUsed, transcript, chatRequests, sendDisabled, thinking,
          nextReq, validationFetches, validationView, last>>

explorerVars == <<runsHistory, historyIndex, cwd, breadcrumb, filesView, listFetches>>
sessionVars == <<mode, fullUsed, transcript, chatRequests, sendDisabled, thinking, nextReq>>
validationVars == <<validationFetches, validationView>>

(***************************************************************************)
(* Bounds of the model.                                                    *)
(***************************************************************************)
MaxHistory == 3
MaxListInflight == 2
MaxTranscript == 6
MaxValidationInflight == 1
MaxCwdLen == 5
JointHistory == 3
JointTranscript == 3

(***************************************************************************)
(* Paths and texts.                                                        *)
(***************************************************************************)
Root == <<>>
\* undefined / null handed to navigateTo (an entry without a path)
NoPath == <<"undefined">>
PathInputs == { Root, <<"a">>, <<"a", "/", "b">>, <<"a", "/", "/", "b">> }
Whitespace == { " ", "\n" }
InputTexts == { <<>>, <<" ", " ">>, <<"h">>, <<" ", "h", "\n">>, <<"a">> }

\* x || ""
OrEmpty(p) == IF p = NoPath \/ p = <<>> THEN <<>> ELSE p

\* h[i] of a 0-based array; undefined outside it
At(h, i) == IF i \in 0..(Len(h) - 1) THEN h[i + 1] ELSE NoPath

\* h.slice(0, n)
Slice(h, n) == SubSeq(h, 1, IF n < Len(h) THEN n ELSE Len(h))

RECURSIVE SplitRec(_, _, _)
SplitRec(s, cur, acc) ==
    IF s = <<>> THEN Append(acc, cur)
    ELSE IF Head(s) = "/" THEN SplitRec(Tail(s), <<>>, Append(acc, cur))
    ELSE SplitRec(Tail(s), Append(cur, Head(s)), acc)

\* s.split('/')
Split(s) == SplitRec(s, <<>>, <<>>)

RECURSIVE Join(_)
\* parts.join('/')
Join(parts) ==
    IF parts = <<>> THEN <<>>
    ELSE IF Len(parts) = 1 THEN parts[1]
    ELSE parts[1] \o <<"/">> \o Join(Tail(parts))

\* cur.split('/').slice(0, -1).join('/')
ParentOf(cur) == LET parts == Split(cur) IN Join(SubSeq(parts, 1, Len(parts) - 1))

RECURSIVE CrumbsRec(_, _, _)
CrumbsRec(parts, acc, crumbs) ==
    IF parts = <<>> THEN crumbs
    ELSE IF Head(parts) = <<>> THEN CrumbsRec(Tail(parts), acc, crumbs)
    ELSE LET next == IF acc # <<>> THEN acc \o <<"/">> \o Head(parts) ELSE Head(parts)
         IN CrumbsRec(Tail(parts), next, Append(crumbs, next))

\* a breadcrumb whose spans carry their own segment as data-path
renderBreadcrumbSegmentOnly(path) ==
    << <<>> >> \o SelectSeq(IF path # <<>> THEN Split(path) ELSE <<>>, LAMBDA p : p # <<>>)

\* the data-path attributes renderBreadcrumb(path) writes
renderBreadcrumb(path) ==
    CrumbsRec(IF path # <<>> THEN Split(path) ELSE <<>>, <<>>, << <<>> >>)

RECURSIVE TrimStart(_)
TrimStart(s) == IF s # <<>> /\ Head(s) \in Whitespace THEN TrimStart(Tail(s)) ELSE s

RECURSIVE TrimEnd(_)
TrimEnd(s) ==
    IF s # <<>> /\ s[Len(s)] \in Whitespace THEN TrimEnd(SubSeq(s, 1, Len(s) - 1)) ELSE s

\* a send that forgets to trim
TrimNothing(s) == s

\* (inputEl.value || "").trim()
Trim(s) == TrimEnd(TrimStart(s))

(***************************************************************************)
(* Explorer.                                                               *)
(***************************************************************************)
CurrentPath == OrEmpty(At(runsHistory, historyIndex))

\* refreshFiles up to its await: the fetch for the path at the cursor of (h, i)
DispatchList(h, i) == listFetches' = listFetches (+) SetToBag({OrEmpty(At(h, i))})

ListRoom == BagCardinality(listFetches) < MaxListInflight

\* updateNavButtons
BackDisabled == historyIndex <= 0
FwdDisabled == historyIndex >= Len(runsHistory) - 1
UpDisabled == CurrentPath = <<>>

Stamp(op, arg) == last' = [op |-> op, arg |-> arg, idx |-> historyIndex, len |-> Len(runsHistory)]

\* a push that keeps the forward history
navigateToNoTruncate(path) ==
    /\ runsHistory' = Append(runsHistory, OrEmpty(path))
    /\ historyIndex' = historyIndex + 1
    /\ DispatchList(runsHistory', historyIndex')
    /\ UNCHANGED <<cwd, breadcrumb, filesView>>

\* navigateTo(path): truncate the forward history, push, advance, refetch
navigateTo(path) ==
    /\ runsHistory' = Append(Slice(runsHistory, historyIndex + 1), OrEmpty(path))
    /\ historyIndex' = historyIndex + 1
    /\ DispatchList(runsHistory', historyIndex')
    /\ UNCHANGED <<cwd, breadcrumb, filesView>>

NavRoom == historyIndex + 1 < MaxHistory /\ ListRoom

\* a click on a folder row (or its Open button): navigateTo(e.path)
OpenFolder(path) ==
    /\ NavRoom
    /\ navigateTo(path)
    /\ Stamp("navigateTo", path)
    /\ UNCHANGED <<sessionVars, validationVars>>

\* a click on the k-th span of the breadcrumb: navigateTo(data-path)
CrumbClick(k) ==
    /\ k \in 1..Len(breadcrumb)
    /\ NavRoom
    /\ navigateTo(breadcrumb[k])
    /\ Stamp("crumbClick", breadcrumb[k])
    /\ UNCHANGED <<sessionVars, validationVars>>

\* goBack guarded by historyIndex >= 0
goBackOffByOne ==
    /\ IF historyIndex >= 0
       THEN /\ ListRoom
            /\ historyIndex' = historyIndex - 1
            /\ DispatchList(runsHistory, historyIndex')
       ELSE UNCHANGED <<historyIndex, listFetches>>
    /\ Stamp("goBack", <<>>)
    /\ UNCHANGED <<runsHistory, cwd, breadcrumb, filesView, sessionVars, validationVars>>

goBack ==
    /\ IF historyIndex > 0
       THEN /\ ListRoom
            /\ historyIndex' = historyIndex - 1
            /\ DispatchList(runsHistory, historyIndex')
       ELSE UNCHANGED <<historyIndex, listFetches>>
    /\ Stamp("goBack", <<>>)
    /\ UNCHANGED <<runsHistory, cwd, breadcrumb, filesView, sessionVars, validationVars>>

\* goForward guarded by historyIndex < runsHistory.length
goForwardOffByOne ==
    /\ IF historyIndex < Len(runsHistory)
       THEN /\ ListRoom
            /\ historyIndex' = historyIndex + 1
            /\ DispatchList(runsHistory, historyIndex')
       ELSE UNCHANGED <<historyIndex, listFetches>>
    /\ Stamp("goForward", <<>>)
    /\ UNCHANGED <<runsHistory, cwd, breadcrumb, filesView, sessionVars, validationVars>>

goForward ==
    /\ IF historyIndex < Len(runsHistory) - 1
       THEN /\ ListRoom
            /\ historyIndex' = historyIndex + 1
            /\ DispatchList(runsHistory, historyIndex')
       ELSE UNCHANGED <<historyIndex, listFetches>>
    /\ Stamp("goForward", <<>>)
    /\ UNCHANGED <<runsHistory, cwd, breadcrumb, filesView, sessionVars, validationVars>>

\* goUp as a step back in the history
goUpMovesCursor ==
    /\ LET cur == OrEmpty(At(runsHistory, historyIndex)) IN
       IF cur = <<>>
       THEN UNCHANGED explorerVars
       ELSE /\ ListRoom
            /\ historyIndex' = IF historyIndex > 0 THEN historyIndex - 1 ELSE 0
            /\ DispatchList(runsHistory, historyIndex')
            /\ UNCHANGED <<runsHistory, cwd, breadcrumb, filesView>>
    /\ Stamp("goUp", <<>>)
    /\ UNCHANGED <<sessionVars, validationVars>>

goUp ==
    /\ LET cur == OrEmpty(At(runsHistory, historyIndex)) IN
       IF cur = <<>>
       THEN UNCHANGED explorerVars
       ELSE NavRoom /\ navigateTo(ParentOf(cur))
    /\ Stamp("goUp", <<>>)
    /\ UNCHANGED <<sessionVars, validationVars>>

\* the refresh button: refreshFiles up to its await
RefreshClick ==
    /\ ListRoom
    /\ DispatchList(runsHistory, historyIndex)
    /\ Stamp("refreshFiles", <<>>)
    /\ UNCHANGED <<runsHistory, historyIndex, cwd, breadcrumb, filesView,
                   sessionVars, validationVars>>

\* What the backend may answer to a listing fetch: entries, no entries,
\* ok:false, or a failed fetch / unparsable body.  A successful answer names
\* the directory it listed, here always the one asked for.
ListOutcomes == { "rows", "empty", "notok", "throw" }

\* refreshFiles whose catch block steps the cursor back
ListAnswerRollsBack(p, outcome, dataCwd) ==
    /\ BagIn(p, listFetches)
    /\ listFetches' = listFetches (-) SetToBag({p})
    /\ IF outcome \in { "rows", "empty" }
       THEN /\ cwd' = OrEmpty(dataCwd)
            /\ breadcrumb' = renderBreadcrumb(cwd')
            /\ filesView' = IF outcome = "rows"
                            THEN [kind |-> "rows", dir |-> p]
                            ELSE [kind |-> "empty", dir |-> <<>>]
            /\ historyIndex' = historyIndex
       ELSE /\ filesView' = [kind |-> "error", dir |-> <<>>]
            /\ historyIndex' = IF historyIndex > 0 THEN historyIndex - 1 ELSE 0
            /\ UNCHANGED <<cwd, breadcrumb>>
    /\ Stamp("listResponse", p)
    /\ UNCHANGED <<runsHistory, sessionVars, validationVars>>

\* refreshFiles after its awaits, for the fetch of path p answered with data.cwd
ListAnswer(p, outcome, dataCwd) ==
    /\ BagIn(p, listFetches)
    /\ listFetches' = listFetches (-) SetToBag({p})
    /\ IF outcome \in { "rows", "empty" }
       THEN /\ cwd' = OrEmpty(dataCwd)
            /\ breadcrumb' = renderBreadcrumb(cwd')
            /\ filesView' = IF outcome = "rows"
                            THEN [kind |-> "rows", dir |-> p]
                            ELSE [kind |-> "empty", dir |-> <<>>]
       ELSE /\ filesView' = [kind |-> "error", dir |-> <<>>]
            /\ UNCHANGED <<cwd, breadcrumb>>
    /\ Stamp("listResponse", p)
    /\ UNCHANGED <<runsHistory, historyIndex, sessionVars, validationVars>>

\* the answer of a backend that lists the directory it was asked for
ListResponse(p, outcome) == ListAnswer(p, outcome, p)

\* the cwd values a backend may report: every string of the alphabet up to MaxCwdLen
CwdAlphabet == { "a", "b", "c", "/" }
CwdInputs == UNION { [1..n -> CwdAlphabet] : n \in 0..MaxCwdLen }

\* the boot listing answered with some cwd of the backend's choosing
BootAnswer(dataCwd) ==
    /\ filesView.kind = "static"
    /\ ListAnswer(Root, "rows", dataCwd)

(***************************************************************************)
(* Validation drawer.                                                      *)
(***************************************************************************)
ValidationRoom == validationFetches < MaxValidationInflight

\* refreshValidation up to its await
DispatchValidation == validationFetches' = validationFetches + 1

\* the drawer's refresh button, or opening the drawer
RefreshValidationClick ==
    /\ ValidationRoom
    /\ DispatchValidation
    /\ Stamp("refreshValidation", <<>>)
    /\ UNCHANGED <<explorerVars, sessionVars, validationView>>

ValidationOutcomes == { "md", "nomd", "throw" }

\* refreshValidation after its awaits
ValidationResponse(outcome) ==
    /\ validationFetches > 0
    /\ validationFetches' = validationFetches - 1
    /\ validationView' = CASE outcome = "md" -> "report"
                           [] outcome = "nomd" -> "No validation report yet."
                           [] OTHER -> "Failed to load validation report."
    /\ Stamp("validationResponse", <<>>)
    /\ UNCHANGED <<explorerVars, sessionVars>>

(***************************************************************************)
(* Session.                                                                *)
(***************************************************************************)
Starting == <<"Starting conversational agent...">>
StartFailed == <<"Failed to start conversational mode.">>
StartNetworkError == <<"Network error starting conversational mode.">>
FullIntro == <<"Full Prompt mode: send ONE prompt. After that the input will disappear.">>
AgentError == <<"Agent error.">>
NetworkError == <<"Network error.">>
PickMode == <<"Pick a mode: Conversational or Full Prompt.">>
NoReply == <<"(no reply)">>
\* the reply field of a backend answer that carries one
Reply == <<"h", "i">>

\* addMsg(role, text); req numbers the handler run that appends (not in the DOM)
addMsg(t, role, text, req) == Append(t, [role |-> role, text |-> text, req |-> req])

\* What the backend may answer to a chat fetch: ok with a reply, ok without
\* one, ok:false, or a failed fetch / unparsable body.
ChatOutcomes == { "reply", "noreply", "notok", "throw" }

\* every chat fetch in flight appends one more message when it settles
TranscriptRoom(n) == Len(transcript) + Cardinality(chatRequests) + n <= MaxTranscript

startConversational ==
    /\ TranscriptRoom(2)
    /\ mode' = "convo"
    /\ fullUsed' = FALSE
    /\ transcript' = addMsg(transcript, "agent", Starting, nextReq)
    /\ thinking' = TRUE
    /\ chatRequests' = chatRequests \cup
           {[id |-> nextReq, kind |-> "start", endpoint |-> "/api/start_convo"]}
    /\ nextReq' = nextReq + 1
    /\ Stamp("startConversational", <<>>)
    /\ UNCHANGED <<explorerVars, validationVars, sendDisabled>>

\* a continuation that leaves conversational mode when the start failed
StartResponseLeavesMode(r, outcome) ==
    /\ r \in chatRequests /\ r.kind = "start"
    /\ chatRequests' = chatRequests \ {r}
    /\ transcript' = addMsg(transcript, "agent",
                            CASE outcome = "reply" -> Reply
                              [] outcome = "noreply" -> NoReply
                              [] outcome = "notok" -> StartFailed
                              [] OTHER -> StartNetworkError,
                            r.id)
    /\ thinking' = FALSE
    /\ mode' = IF outcome \in { "notok", "throw" } THEN "null" ELSE mode
    /\ DispatchList(runsHistory, historyIndex)
    /\ DispatchValidation
    /\ Stamp("startResponse", <<r.id, outcome>>)
    /\ UNCHANGED <<runsHistory, historyIndex, cwd, breadcrumb, filesView,
                   fullUsed, sendDisabled, nextReq, validationView>>

\* startConversational after its awaits
StartResponse(r, outcome) ==
    /\ r \in chatRequests /\ r.kind = "start"
    /\ chatRequests' = chatRequests \ {r}
    /\ transcript' = addMsg(transcript, "agent",
                            CASE outcome = "reply" -> Reply
                              [] outcome = "noreply" -> NoReply
                              [] outcome = "notok" -> StartFailed
                              [] OTHER -> StartNetworkError,
                            r.id)
    /\ thinking' = FALSE
    /\ DispatchList(runsHistory, historyIndex)
    /\ DispatchValidation
    /\ Stamp("startResponse", <<r.id, outcome>>)
    /\ UNCHANGED <<runsHistory, historyIndex, cwd, breadcrumb, filesView,
                   mode, fullUsed, sendDisabled, nextReq, validationView>>

\* startFullPromptMode without the reset of fullUsed
startFullPromptModeKeepsFlag ==
    /\ TranscriptRoom(1)
    /\ mode' = "full"
    /\ fullUsed' = fullUsed
    /\ transcript' = addMsg(transcript, "agent", FullIntro, nextReq)
    /\ nextReq' = nextReq + 1
    /\ Stamp("startFullPromptMode", <<>>)
    /\ UNCHANGED <<explorerVars, validationVars, chatRequests, sendDisabled, thinking>>

startFullPromptMode ==
    /\ TranscriptRoom(1)
    /\ mode' = "full"
    /\ fullUsed' = FALSE
    /\ transcript' = addMsg(transcript, "agent", FullIntro, nextReq)
    /\ nextReq' = nextReq + 1
    /\ Stamp("startFullPromptMode", <<>>)
    /\ UNCHANGED <<explorerVars, validationVars, chatRequests, sendDisabled, thinking>>

\* sendMessage without its one-shot return
sendMessageNoOneShot(value) ==
    LET text == Trim(value) IN
    IF text = <<>> THEN UNCHANGED <<explorerVars, sessionVars, validationVars>>
    ELSE IF mode = "convo"
    THEN /\ TranscriptRoom(2)
         /\ transcript' = addMsg(transcript, "user", text, nextReq)
         /\ sendDisabled' = TRUE
         /\ thinking' = TRUE
         /\ chatRequests' = chatRequests \cup
                {[id |-> nextReq, kind |-> "convo", endpoint |-> "/api/chat_convo"]}
         /\ nextReq' = nextReq + 1
         /\ UNCHANGED <<explorerVars, validationVars, mode, fullUsed>>
    ELSE IF mode = "full"
    THEN /\ TranscriptRoom(2)
         /\ transcript' = addMsg(transcript, "user", text, nextReq)
         /\ sendDisabled' = TRUE
         /\ thinking' = TRUE
         /\ chatRequests' = chatRequests \cup
                {[id |-> nextReq, kind |-> "full",
                  endpoint |-> IF fullUsed THEN "/api/chat_full" ELSE "/api/start_full"]}
         /\ nextReq' = nextReq + 1
         /\ UNCHANGED <<explorerVars, validationVars, mode, fullUsed>>
    ELSE /\ TranscriptRoom(2)
         /\ transcript' = addMsg(addMsg(transcript, "user", text, nextReq),
                                 "agent", PickMode, nextReq)
         /\ sendDisabled' = FALSE
         /\ thinking' = FALSE
         /\ nextReq' = nextReq + 1
         /\ DispatchList(runsHistory, historyIndex)
         /\ DispatchValidation
         /\ UNCHANGED <<runsHistory, historyIndex, cwd, breadcrumb, filesView,
                        mode, fullUsed, chatRequests, validationView>>

\* sendMessage whose one-shot return tests the wrong mode
sendMessageGuardsConvo(value) ==
    LET text == Trim(value) IN
    IF text = <<>> THEN UNCHANGED <<explorerVars, sessionVars, validationVars>>
    ELSE IF mode = "convo" /\ fullUsed
    THEN UNCHANGED <<explorerVars, sessionVars, validationVars>>
    ELSE IF mode = "convo"
    THEN /\ TranscriptRoom(2)
         /\ transcript' = addMsg(transcript, "user", text, nextReq)
         /\ sendDisabled' = TRUE
         /\ thinking' = TRUE
         /\ chatRequests' = chatRequests \cup
                {[id |-> nextReq, kind |-> "convo", endpoint |-> "/api/chat_convo"]}
         /\ nextReq' = nextReq + 1
         /\ UNCHANGED <<explorerVars, validationVars, mode, fullUsed>>
    ELSE IF mode = "full"
    THEN /\ TranscriptRoom(2)
         /\ transcript' = addMsg(transcript, "user", text, nextReq)
         /\ sendDisabled' = TRUE
         /\ thinking' = TRUE
         /\ chatRequests' = chatRequests \cup
                {[id |-> nextReq, kind |-> "full",
                  endpoint |-> IF fullUsed THEN "/api/chat_full" ELSE "/api/start_full"]}
         /\ nextReq' = nextReq + 1
         /\ UNCHANGED <<explorerVars, validationVars, mode, fullUsed>>
    ELSE /\ TranscriptRoom(2)
         /\ transcript' = addMsg(addMsg(transcript, "user", text, nextReq),
                                 "agent", PickMode, nextReq)
         /\ sendDisabled' = FALSE
         /\ thinking' = FALSE
         /\ nextReq' = nextReq + 1
         /\ DispatchList(runsHistory, historyIndex)
         /\ DispatchValidation
         /\ UNCHANGED <<runsHistory, historyIndex, cwd, breadcrumb, filesView,
                        mode, fullUsed, chatRequests, validationView>>

\* sendMessage that returns when no mode has been picked
sendMessageIgnoresUnset(value) ==
    LET text == Trim(value) IN
    IF text = <<>> THEN UNCHANGED <<explorerVars, sessionVars, validationVars>>
    ELSE IF mode = "full" /\ fullUsed
    THEN UNCHANGED <<explorerVars, sessionVars, validationVars>>
    ELSE IF mode = "convo"
    THEN /\ TranscriptRoom(2)
         /\ transcript' = addMsg(transcript, "user", text, nextReq)
         /\ sendDisabled' = TRUE
         /\ thinking' = TRUE
         /\ chatRequests' = chatRequests \cup
                {[id |-> nextReq, kind |-> "convo", endpoint |-> "/api/chat_convo"]}
         /\ nextReq' = nextReq + 1
         /\ UNCHANGED <<explorerVars, validationVars, mode, fullUsed>>
    ELSE IF mode = "full"
    THEN /\ TranscriptRoom(2)
         /\ transcript' = addMsg(transcript, "user", text, nextReq)
         /\ sendDisabled' = TRUE
         /\ thinking' = TRUE
         /\ chatRequests' = chatRequests \cup
                {[id |-> nextReq, kind |-> "full",
                  endpoint |-> IF fullUsed THEN "/api/chat_full" ELSE "/api/start_full"]}
         /\ nextReq' = nextReq + 1
         /\ UNCHANGED <<explorerVars, validationVars, mode, fullUsed>>
    ELSE UNCHANGED <<explorerVars, sessionVars, validationVars>>

\* sendMessage up to its first await, or to its end when it awaits nothing
sendMessage(value) ==
    LET text == Trim(value) IN
    IF text = <<>> THEN UNCHANGED <<explorerVars, sessionVars, validationVars>>
    ELSE IF mode = "full" /\ fullUsed
    THEN UNCHANGED <<explorerVars, sessionVars, validationVars>>
    ELSE IF mode = "convo"
    THEN /\ TranscriptRoom(2)
         /\ transcript' = addMsg(transcript, "user", text, nextReq)
         /\ sendDisabled' = TRUE
         /\ thinking' = TRUE
         /\ chatRequests' = chatRequests \cup
                {[id |-> nextReq, kind |-> "convo", endpoint |-> "/api/chat_convo"]}
         /\ nextReq' = nextReq + 1
         /\ UNCHANGED <<explorerVars, validationVars, mode, fullUsed>>
    ELSE IF mode = "full"
    THEN /\ TranscriptRoom(2)
         /\ transcript' = addMsg(transcript, "user", text, nextReq)
         /\ sendDisabled' = TRUE
         /\ thinking' = TRUE
         /\ chatRequests' = chatRequests \cup
                {[id |-> nextReq, kind |-> "full",
                  endpoint |-> IF fullUsed THEN "/api/chat_full" ELSE "/api/start_full"]}
         /\ nextReq' = nextReq + 1
         /\ UNCHANGED <<explorerVars, validationVars, mode, fullUsed>>
    ELSE /\ TranscriptRoom(2)
         /\ transcript' = addMsg(addMsg(transcript, "user", text, nextReq),
                                 "agent", PickMode, nextReq)
         /\ sendDisabled' = FALSE
         /\ thinking' = FALSE
         /\ nextReq' = nextReq + 1
         /\ DispatchList(runsHistory, historyIndex)
         /\ DispatchValidation
         /\ UNCHANGED <<runsHistory, historyIndex, cwd, breadcrumb, filesView,
                        mode, fullUsed, chatRequests, validationView>>

\* a click on sendBtn, which a disabled button does not deliver
SendClick(value) ==
    /\ ~sendDisabled
    /\ sendMessage(value)
    /\ Stamp("sendClick", value)

\* Enter without Shift in the textarea
SendEnter(value) ==
    /\ sendMessage(value)
    /\ Stamp("sendEnter", value)

\* sendMessage with the pending state cleared in the try block instead of in finally
ChatResponseKeepsPending(r, outcome) ==
    /\ r \in chatRequests /\ r.kind \in { "convo", "full" }
    /\ chatRequests' = chatRequests \ {r}
    /\ transcript' = addMsg(transcript, "agent",
                            CASE outcome = "reply" -> Reply
                              [] outcome = "noreply" -> NoReply
                              [] outcome = "notok" -> AgentError
                              [] OTHER -> NetworkError,
                            r.id)
    /\ fullUsed' = IF r.kind = "full" /\ outcome # "throw" THEN TRUE ELSE fullUsed
    /\ sendDisabled' = IF outcome = "throw" THEN sendDisabled ELSE FALSE
    /\ thinking' = IF outcome = "throw" THEN thinking ELSE FALSE
    /\ DispatchList(runsHistory, historyIndex)
    /\ DispatchValidation
    /\ Stamp("chatResponse", <<r.id, outcome>>)
    /\ UNCHANGED <<runsHistory, historyIndex, cwd, breadcrumb, filesView,
                   mode, nextReq, validationView>>

\* sendMessage that drops the mode once a full prompt has been answered
ChatResponseResetsMode(r, outcome) ==
    /\ r \in chatRequests /\ r.kind \in { "convo", "full" }
    /\ chatRequests' = chatRequests \ {r}
    /\ transcript' = addMsg(transcript, "agent",
                            CASE outcome = "reply" -> Reply
                              [] outcome = "noreply" -> NoReply
                              [] outcome = "notok" -> AgentError
                              [] OTHER -> NetworkError,
                            r.id)
    /\ fullUsed' = IF r.kind = "full" /\ outcome # "throw" THEN TRUE ELSE fullUsed
    /\ mode' = IF r.kind = "full" /\ outcome # "throw" THEN "null" ELSE mode
    /\ sendDisabled' = FALSE
    /\ thinking' = FALSE
    /\ DispatchList(runsHistory, historyIndex)
    /\ DispatchValidation
    /\ Stamp("chatResponse", <<r.id, outcome>>)
    /\ UNCHANGED <<runsHistory, historyIndex, cwd, breadcrumb, filesView,
                   nextReq, validationView>>

\* sendMessage after its awaits (catch and finally included)
ChatResponse(r, outcome) ==
    /\ r \in chatRequests /\ r.kind \in { "convo", "full" }
    /\ chatRequests' = chatRequests \ {r}
    /\ transcript' = addMsg(transcript, "agent",
                            CASE outcome = "reply" -> Reply
                              [] outcome = "noreply" -> NoReply
                              [] outcome = "notok" -> AgentError
                              [] OTHER -> NetworkError,
                            r.id)
    /\ fullUsed' = IF r.kind = "full" /\ outcome # "throw" THEN TRUE ELSE fullUsed
    /\ sendDisabled' = FALSE
    /\ thinking' = FALSE
    /\ DispatchList(runsHistory, historyIndex)
    /\ DispatchValidation
    /\ Stamp("chatResponse", <<r.id, outcome>>)
    /\ UNCHANGED <<runsHistory, historyIndex, cwd, breadcrumb, filesView,
                   mode, nextReq, validationView>>

(***************************************************************************)
(* Specifications.                                                         *)
(***************************************************************************)
\* the page after the script has run: the boot refreshFiles() is in flight
Init ==
    /\ runsHistory = << <<>> >>
    /\ historyIndex = 0
    /\ cwd = <<>>
    /\ breadcrumb = <<>>
    /\ filesView = [kind |-> "static", dir |-> <<>>]
    /\ listFetches = SetToBag({<<>>})
    /\ mode = "null"
    /\ fullUsed = FALSE
    /\ transcript = <<>>
    /\ chatRequests = {}
    /\ sendDisabled = FALSE
    /\ thinking = FALSE
    /\ nextReq = 1
    /\ validationFetches = 0
    /\ validationView = "static"
    /\ last = [op |-> "boot", arg |-> <<>>, idx |-> 0, len |-> 1]

NextExplorer ==
    \/ \E path \in PathInputs \cup {NoPath} : OpenFolder(path)
    \/ \E k \in 1..MaxHistory + 2 : CrumbClick(k)
    \/ goBack
    \/ goForward
    \/ goUp
    \/ RefreshClick
    \/ \E p \in DOMAIN listFetches, outcome \in ListOutcomes : ListResponse(p, outcome)

NextSession ==
    \/ startConversational
    \/ startFullPromptMode
    \/ \E value \in InputTexts : SendClick(value)
    \/ \E value \in InputTexts : SendEnter(value)
    \/ \E r \in chatRequests, outcome \in ChatOutcomes : StartResponse(r, outcome)
    \/ \E r \in chatRequests, outcome \in ChatOutcomes : ChatResponse(r, outcome)

NextValidation ==
    \/ RefreshValidationClick
    \/ \E outcome \in ValidationOutcomes : ValidationResponse(outcome)

Next == NextExplorer \/ NextSession \/ NextValidation

\* the explorer alone; RefreshClick stands for every refreshFiles() a chat round makes
SpecExplorer == Init /\ [][NextExplorer]_vars
\* the session alone: the history stays at the root, and the listing and
\* validation fetches its chat rounds dispatch stay in flight (nothing times out)
SpecSession == Init /\ [][NextSession]_vars

\* the explorer and the session together, within smaller bounds
JointPaths == { <<"a">> }
JointTexts == { <<" ", " ">>, <<"h">> }
JointBound ==
    /\ Len(runsHistory) <= JointHistory
    /\ Len(transcript) + Cardinality(chatRequests) <= JointTranscript

NextJoint ==
    /\ \/ \E path \in JointPaths : OpenFolder(path)
       \/ \E k \in 1..JointHistory : CrumbClick(k)
       \/ goBack
       \/ goForward
       \/ goUp
       \/ RefreshClick
       \/ \E p \in DOMAIN listFetches, outcome \in ListOutcomes : ListResponse(p, outcome)
       \/ startConversational
       \/ startFullPromptMode
       \/ \E value \in JointTexts : SendClick(value)
       \/ \E value \in JointTexts : SendEnter(value)
       \/ \E r \in chatRequests, outcome \in ChatOutcomes : StartResponse(r, outcome)
       \/ \E r \in chatRequests, outcome \in ChatOutcomes : ChatResponse(r, outcome)
    /\ JointBound'

SpecJoint == Init /\ [][NextJoint]_vars
\* every fetch() promise settles, so an awaiting startConversational or
\* sendMessage is resumed
SpecJointLive ==
    /\ SpecJoint
    /\ WF_vars(\E r \in chatRequests, outcome \in ChatOutcomes :
                  StartResponse(r, outcome) /\ JointBound')
    /\ WF_vars(\E r \in chatRequests, outcome \in ChatOutcomes :
                  ChatResponse(r, outcome) /\ JointBound')

NextBreadcrumb ==
    \/ \E dataCwd \in CwdInputs : BootAnswer(dataCwd)
    \/ \E k \in 1..MaxCwdLen + 1 : CrumbClick(k)

\* the breadcrumb alone: the first listing reports any cwd, then spans are clicked
SpecBreadcrumb == Init /\ [][NextBreadcrumb]_vars
Spec == Init /\ [][Next]_vars

(***************************************************************************)
(* Properties of the explorer, checked under SpecExplorer.                 *)
(***************************************************************************)
IsNavigate(l) == l.op \in { "navigateTo", "crumbClick" }

\* C1: the cursor stays inside the history, the history is never empty and
\* its first entry is the root "".
C1_CursorInHistory ==
    /\ Len(runsHistory) >= 1
    /\ historyIndex >= 0
    /\ historyIndex <= Len(runsHistory) - 1
    /\ runsHistory[1] = <<>>

\* goBack has just brought the cursor from 1 to 0 with two entries ahead of it
C1_Witness ==
    /\ last.op = "goBack"
    /\ last.idx = 1
    /\ historyIndex = 0
    /\ Len(runsHistory) = 3

\* C2: a listing response for a fetch of path P that resolves while the
\* cursor is on another path changes neither the listing shown nor the cwd
\* and breadcrumb shown.
C2_StaleResponseDiscarded ==
    [][(last'.op = "listResponse" /\ last'.arg # OrEmpty(runsHistory[historyIndex + 1]))
        => UNCHANGED <<filesView, cwd, breadcrumb>>]_vars

\* C5: navigateTo(P) with history H and cursor i leaves H[0..i] followed by
\* P, the cursor at i+1, the last index, and dispatches one listing fetch,
\* for P.
C5_NavigateTruncatesForward ==
    [][IsNavigate(last') =>
        LET P == IF last'.arg = NoPath THEN <<>> ELSE last'.arg IN
        /\ runsHistory' = SubSeq(runsHistory, 1, historyIndex + 1) \o <<P>>
        /\ historyIndex' = historyIndex + 1
        /\ historyIndex' = Len(runsHistory') - 1
        /\ listFetches' = listFetches (+) SetToBag({P})]_vars

\* navigateTo has run with the cursor at 0 of a history of three entries
C5_Witness ==
    /\ last.op = "navigateTo"
    /\ last.idx = 0
    /\ last.len = 3
    /\ Len(runsHistory) = 2
    /\ historyIndex = 1

\* C6: goBack at cursor 0 and goForward at the last index change nothing of
\* the explorer and dispatch no fetch; elsewhere they move the cursor by one,
\* keep the history and dispatch one fetch, for the path now at the cursor.
C6_BackForwardFrame ==
    [][/\ last'.op = "goBack" =>
            IF historyIndex = 0
            THEN UNCHANGED <<runsHistory, historyIndex, filesView, cwd, breadcrumb, listFetches>>
            ELSE /\ historyIndex' = historyIndex - 1
                 /\ runsHistory' = runsHistory
                 /\ listFetches' = listFetches (+) SetToBag({runsHistory[historyIndex' + 1]})
       /\ last'.op = "goForward" =>
            IF historyIndex = Len(runsHistory) - 1
            THEN UNCHANGED <<runsHistory, historyIndex, filesView, cwd, breadcrumb, listFetches>>
            ELSE /\ historyIndex' = historyIndex + 1
                 /\ runsHistory' = runsHistory
                 /\ listFetches' = listFetches (+) SetToBag({runsHistory[historyIndex' + 1]})
      ]_vars

\* goForward has run at the last index of a history of two entries or more
C6_Witness ==
    /\ last.op = "goForward"
    /\ last.len >= 2
    /\ last.idx = last.len - 1
    /\ historyIndex = last.idx

\* C7: with no listing fetch in flight the cwd shown is the path at the cursor.
C7_SettledCwdIsCurrent ==
    BagCardinality(listFetches) = 0 => cwd = OrEmpty(runsHistory[historyIndex + 1])

(***************************************************************************)
(* Properties of the session, checked under SpecSession.                   *)
(***************************************************************************)
IsSend(l) == l.op \in { "sendClick", "sendEnter" }
Blank(value) == \A k \in 1..Len(value) : value[k] \in { " ", "\n" }
ResultTexts == { Reply, NoReply, AgentError, NetworkError, StartFailed, StartNetworkError }
IsResult(e) == e.role = "agent" /\ e.text \in ResultTexts

\* the index of the last message a begin action appended, 0 when there is none
LastBegin ==
    LET B == { k \in 1..Len(transcript) : transcript[k].text \in { FullIntro, Starting } }
    IN IF B = {} THEN 0 ELSE CHOOSE k \in B : \A m \in B : m <= k

\* the user messages appended since the last begin action
SubmitsSinceBegin ==
    { k \in (LastBegin + 1)..Len(transcript) : transcript[k].role = "user" }

\* C3: between a begin of FullPrompt mode and the next begin at most one
\* submit is accepted, whatever the outcome of its request and also while
\* that request is still in flight.
C3_FullPromptSingleSubmit ==
    mode = "full" => Cardinality(SubmitsSinceBegin) <= 1

\* C4: at most one chat request is in flight at any time.
C4_OneChatRequestInFlight ==
    Cardinality(chatRequests) <= 1

\* C8: the results of two chat requests are appended in the order the
\* requests were issued, each after the user message of its own request.
C8_ResultsInRequestOrder ==
    \A i, j \in 1..Len(transcript) :
        /\ (i < j /\ IsResult(transcript[i]) /\ IsResult(transcript[j]))
               => transcript[i].req < transcript[j].req
        /\ (IsResult(transcript[i]) /\ transcript[j].role = "user"
                /\ transcript[j].req = transcript[i].req) => j < i

\* C9: in FullPrompt mode with fullUsed set a submit sends no request and
\* appends nothing to the transcript.
C9_UsedFullPromptRejects ==
    [][(IsSend(last') /\ mode = "full" /\ fullUsed)
        => UNCHANGED <<transcript, chatRequests, listFetches, validationFetches,
                       mode, fullUsed>>]_vars

\* full prompt begun, one submit answered with a reply, and a second submit
\* of a non-blank text made after it
C9_Witness ==
    /\ IsSend(last) /\ ~Blank(last.arg)
    /\ mode = "full" /\ fullUsed
    /\ chatRequests = {}
    /\ Len(transcript) = 3
    /\ transcript[1].text = FullIntro
    /\ transcript[2].role = "user"
    /\ transcript[3].text = Reply

\* C10: a submit of an empty or whitespace-only text, in any mode, issues no
\* chat, listing or validation request and leaves transcript, mode and
\* fullUsed unchanged.
C10_BlankSubmitNoOp ==
    [][(IsSend(last') /\ Blank(last'.arg))
        => UNCHANGED <<transcript, mode, fullUsed, chatRequests, listFetches,
                       validationFetches>>]_vars

\* a whitespace-only text submitted in conversational mode, nothing pending
C10_Witness ==
    /\ IsSend(last) /\ last.arg = <<" ", " ">>
    /\ mode = "convo"
    /\ chatRequests = {}
    /\ Len(transcript) = 2

(***************************************************************************)
(* Further properties of the explorer, checked under SpecExplorer.         *)
(***************************************************************************)
\* a path without its last '/'-delimited segment
WithoutLastSegment(path) ==
    LET S == { k \in 1..Len(path) : path[k] = "/" }
    IN IF S = {} THEN <<>>
       ELSE SubSeq(path, 1, (CHOOSE k \in S : \A m \in S : m <= k) - 1)

\* C11: goUp at the root changes nothing; elsewhere, with history H and
\* cursor i, it leaves H[0..i] followed by the parent of H[i] with the cursor
\* at the new end and one fetch for the parent dispatched, so the forward
\* entries are gone and a goForward right after it changes nothing.
C11_GoUpPushesParent ==
    [][/\ last'.op = "goUp" =>
            LET cur == runsHistory[historyIndex + 1] IN
            IF cur = <<>>
            THEN UNCHANGED <<runsHistory, historyIndex, listFetches, cwd, filesView>>
            ELSE /\ runsHistory' = SubSeq(runsHistory, 1, historyIndex + 1)
                                       \o <<WithoutLastSegment(cur)>>
                 /\ historyIndex' = Len(runsHistory') - 1
                 /\ listFetches' = listFetches (+) SetToBag({WithoutLastSegment(cur)})
       /\ (last.op = "goUp" /\ historyIndex = last.idx + 1 /\ last'.op = "goForward")
            => UNCHANGED <<runsHistory, historyIndex, listFetches>>
      ]_vars

\* goBack from "a//b" to "a/b", then goUp: "a//b" is gone and "a" is last
C11_Witness ==
    /\ last.op = "goUp"
    /\ last.idx = 1
    /\ last.len = 3
    /\ runsHistory = << <<>>, <<"a", "/", "b">>, <<"a">> >>
    /\ historyIndex = 2

(***************************************************************************)
(* The breadcrumb, checked under SpecBreadcrumb.                           *)
(***************************************************************************)
\* the non-empty '/'-delimited segments of a path
Segments(path) == SelectSeq(Split(path), LAMBDA p : p # <<>>)

\* C12: for a cwd with n non-empty segments the breadcrumb has n+1 spans,
\* span 0 resolving to "" and span k to the first k segments joined by '/';
\* a click on a span is navigateTo of the path it resolves to.  For "a/b/c"
\* the spans resolve to "", "a", "a/b", "a/b/c".
C12_BreadcrumbSpans ==
    [][/\ breadcrumb' # <<>> =>
            LET segs == IF cwd' = <<>> THEN <<>> ELSE Segments(cwd') IN
            /\ Len(breadcrumb') = Len(segs) + 1
            /\ breadcrumb'[1] = <<>>
            /\ \A k \in 1..Len(segs) : breadcrumb'[k + 1] = Join(SubSeq(segs, 1, k))
       /\ cwd' = <<"a", "/", "b", "/", "c">> =>
            breadcrumb' = << <<>>, <<"a">>, <<"a", "/", "b">>, <<"a", "/", "b", "/", "c">> >>
       /\ last'.op = "crumbClick" =>
            /\ \E k \in 1..Len(breadcrumb) : breadcrumb[k] = last'.arg
            /\ runsHistory' = SubSeq(runsHistory, 1, historyIndex + 1) \o <<last'.arg>>
            /\ historyIndex' = historyIndex + 1
            /\ listFetches' = listFetches (+) SetToBag({last'.arg})
      ]_vars

\* the listing reported cwd "a/b/c" and the third span, "a/b", was clicked
C12_Witness ==
    /\ cwd = <<"a", "/", "b", "/", "c">>
    /\ Len(breadcrumb) = 4
    /\ last.op = "crumbClick"
    /\ last.arg = breadcrumb[3]
    /\ runsHistory = << <<>>, <<"a", "/", "b">> >>
    /\ historyIndex = 1

(***************************************************************************)
(* Further properties of the session, checked under SpecSession.           *)
(***************************************************************************)
\* the chat requests a step settles, and those it sends
Settled == chatRequests \ chatRequests'
Sent == chatRequests' \ chatRequests

\* C13: in FullPrompt mode fullUsed is true once the request of a submit has
\* settled, whether it was answered ok:true, ok:false or failed.
C13_FullUsedAfterAnyOutcome ==
    [][\A r \in Settled : (mode = "full" /\ r.kind = "full") => fullUsed']_vars

\* C14: startConversational sets mode to convo and fullUsed to false before
\* any answer; its continuation appends one agent message, an error message
\* when the start failed, and changes neither mode nor fullUsed; a non-blank
\* submit in convo mode sends one request, to /api/chat_convo.
C14_ConversationalStartsDegraded ==
    [][/\ last'.op = "startConversational" => (mode' = "convo" /\ fullUsed' = FALSE)
       /\ last'.op = "startResponse" =>
            /\ mode' = mode /\ fullUsed' = fullUsed
            /\ Len(transcript') = Len(transcript) + 1
            /\ SubSeq(transcript', 1, Len(transcript)) = transcript
            /\ transcript'[Len(transcript')].role = "agent"
            /\ last'.arg[2] = "notok" => transcript'[Len(transcript')].text = StartFailed
            /\ last'.arg[2] = "throw" => transcript'[Len(transcript')].text = StartNetworkError
       /\ (IsSend(last') /\ ~Blank(last'.arg) /\ mode = "convo") =>
            /\ Cardinality(Sent) = 1
            /\ \A r \in Sent : r.endpoint = "/api/chat_convo"
      ]_vars

\* the start failed with a network error and a submit followed it
C14_Witness ==
    /\ IsSend(last) /\ ~Blank(last.arg)
    /\ mode = "convo"
    /\ Len(transcript) = 3
    /\ transcript[1].text = Starting
    /\ transcript[2].text = StartNetworkError
    /\ transcript[3].role = "user"
    /\ \E r \in chatRequests : r.endpoint = "/api/chat_convo"

(***************************************************************************)
(* Properties of the two controllers together, checked under SpecJoint.    *)
(***************************************************************************)
\* C15: when the request of a submit settles, with a reply, with ok:false or
\* with a network failure, the send button is enabled again, the thinking
\* indicator is hidden, one listing fetch for the path at the history cursor
\* and one validation fetch are dispatched, and the history and the cursor
\* are unchanged; a submit made before a mode was picked does the same at
\* once; and whenever the send button is disabled it is later enabled again.
C15_SettleClearsPendingAndRefreshes ==
    /\ [][(\/ last'.op = "chatResponse"
            \/ (IsSend(last') /\ ~Blank(last'.arg) /\ mode = "null")) =>
            /\ ~sendDisabled' /\ ~thinking'
            /\ listFetches' = listFetches (+) SetToBag({runsHistory[historyIndex + 1]})
            /\ validationFetches' = validationFetches + 1
            /\ UNCHANGED <<runsHistory, historyIndex>>
         ]_vars
    /\ (sendDisabled ~> ~sendDisabled)
    /\ (thinking ~> ~thinking)

\* a request failed with a network error while the cursor was on folder a,
\* whose listing was already being fetched
C15_Witness ==
    /\ last.op = "chatResponse" /\ last.arg[2] = "throw"
    /\ historyIndex = 1 /\ runsHistory[2] = <<"a">>
    /\ CopiesIn(<<"a">>, listFetches) = 2
    /\ ~sendDisabled /\ ~thinking

\* C16: dispatching a listing fetch, from the refresh button or from the end
\* of a chat round, and resolving one with entries, without entries, with
\* ok:false or with a thrown error, leaves the history and the cursor as they
\* were; while the view shows the load error, goBack, goForward and
\* navigateTo have the effect on history, cursor and fetches that they have
\* from any other view.
C16_ListingLeavesHistory ==
    [][/\ last'.op \in { "refreshFiles", "listResponse", "chatResponse", "startResponse" }
            => UNCHANGED <<runsHistory, historyIndex>>
       /\ (filesView.kind = "error" /\ last'.op = "goBack") =>
            /\ runsHistory' = runsHistory
            /\ historyIndex' = IF historyIndex > 0 THEN historyIndex - 1 ELSE historyIndex
            /\ listFetches' = IF historyIndex > 0
                              THEN listFetches (+) SetToBag({runsHistory[historyIndex]})
                              ELSE listFetches
       /\ (filesView.kind = "error" /\ last'.op = "goForward") =>
            /\ runsHistory' = runsHistory
            /\ historyIndex' = IF historyIndex < Len(runsHistory) - 1
                               THEN historyIndex + 1 ELSE historyIndex
            /\ listFetches' = IF historyIndex < Len(runsHistory) - 1
                              THEN listFetches (+) SetToBag({runsHistory[historyIndex + 2]})
                              ELSE listFetches
       /\ (filesView.kind = "error" /\ IsNavigate(last')) =>
            /\ runsHistory' = SubSeq(runsHistory, 1, historyIndex + 1) \o <<last'.arg>>
            /\ historyIndex' = historyIndex + 1
            /\ listFetches' = listFetches (+) SetToBag({last'.arg})
      ]_vars

\* the listing of folder a failed and goBack then moved the cursor to the root
C16_Witness ==
    /\ last.op = "goBack" /\ last.idx = 1
    /\ filesView.kind = "error"
    /\ runsHistory = << <<>>, <<"a">> >>
    /\ historyIndex = 0
    /\ CopiesIn(<<>>, listFetches) = 1

\* the steps of the explorer's handlers and of refreshFiles
ExplorerOps ==
    { "navigateTo", "crumbClick", "goBack", "goForward", "goUp", "refreshFiles", "listResponse" }

\* C17: only startConversational and startFullPromptMode change mode; the
\* explorer's handlers and listing callbacks change neither mode, fullUsed
\* nor the transcript; and once a mode is set, mode is never null again.
C17_ModeChangesOnlyOnBegin ==
    [][/\ mode' # mode => last'.op \in { "startConversational", "startFullPromptMode" }
       /\ last'.op \in ExplorerOps => UNCHANGED <<mode, fullUsed, transcript>>
       /\ mode # "null" => mode' # "null"
      ]_vars

\* goUp has pushed the parent of folder a after a full prompt was answered
C17_Witness ==
    /\ last.op = "goUp" /\ last.idx = 1
    /\ historyIndex = 2 /\ runsHistory[3] = <<>>
    /\ mode = "full" /\ fullUsed
    /\ Len(transcript) = 3

(***************************************************************************)
(* Further properties of the session, checked under SpecSession.           *)
(***************************************************************************)
\* C18: startFullPromptMode, whatever the state, sets mode to full and
\* fullUsed to false, sends no chat, listing or validation request, and
\* appends exactly one message to the transcript, an agent message.
C18_BeginFullPromptEffect ==
    [][last'.op = "startFullPromptMode" =>
        /\ mode' = "full" /\ fullUsed' = FALSE
        /\ UNCHANGED <<chatRequests, listFetches, validationFetches>>
        /\ Len(transcript') = Len(transcript) + 1
        /\ SubSeq(transcript', 1, Len(transcript)) = transcript
        /\ transcript'[Len(transcript')].role = "agent"
        /\ transcript'[Len(transcript')].text = FullIntro
      ]_vars

\* full-prompt mode was begun again after its one prompt had been answered
C18_Witness ==
    /\ last.op = "startFullPromptMode"
    /\ Len(transcript) = 4
    /\ transcript[1].text = FullIntro
    /\ transcript[2].role = "user"
    /\ transcript[3].text = Reply
    /\ transcript[4].text = FullIntro
    /\ mode = "full" /\ ~fullUsed

\* C19: startFullPromptMode leaves fullUsed false, and in full mode fullUsed
\* becomes true only when a request settles that was sent by a submit made
\* after the last begin action; the answer to a request sent before that
\* begin does not set it.
C19_OldAnswerKeepsFlag ==
    [][/\ last'.op = "startFullPromptMode" => ~fullUsed'
       /\ (mode = "full" /\ ~fullUsed /\ fullUsed') =>
            /\ LastBegin > 0
            /\ \A r \in Settled : r.id > transcript[LastBegin].req
      ]_vars

\* C20: no submit ever sends a request to /api/chat_full: a request sent by
\* a submit in full mode goes to /api/start_full and one sent in convo mode
\* to /api/chat_convo, and no request in flight is addressed to
\* /api/chat_full.
C20_NeverContinueFullPrompt ==
    [][/\ \A r \in Sent : r.endpoint # "/api/chat_full"
       /\ (IsSend(last') /\ mode = "full") =>
            \A r \in Sent : r.endpoint = "/api/start_full"
       /\ (IsSend(last') /\ mode = "convo") =>
            \A r \in Sent : r.endpoint = "/api/chat_convo"
       /\ \A r \in chatRequests' : r.endpoint # "/api/chat_full"
      ]_vars

\* the first full prompt failed with a network error and a second submit
\* has sent its request to /api/start_full
C20_Witness ==
    /\ IsSend(last) /\ ~Blank(last.arg)
    /\ mode = "full"
    /\ Len(transcript) = 4
    /\ transcript[1].text = FullIntro
    /\ transcript[3].text = NetworkError
    /\ transcript[4].role = "user"
    /\ \E r \in chatRequests : r.id = transcript[4].req /\ r.endpoint = "/api/start_full"

(***************************************************************************)
(* A submit before any mode is picked, checked under SpecJoint.            *)
(***************************************************************************)
\* C21: a non-blank submit while mode is null sends no chat request and
\* leaves mode null and fullUsed false; it appends the trimmed user message
\* and then one agent message asking to pick a mode, and dispatches one
\* listing fetch for the path at the cursor and one validation fetch.
C21_UnsetModeSubmit ==
    [][(IsSend(last') /\ ~Blank(last'.arg) /\ mode = "null") =>
        /\ chatRequests' = chatRequests
        /\ mode' = "null" /\ fullUsed' = FALSE
        /\ Len(transcript') = Len(transcript) + 2
        /\ SubSeq(transcript', 1, Len(transcript)) = transcript
        /\ transcript'[Len(transcript) + 1].role = "user"
        /\ transcript'[Len(transcript) + 1].text = Trim(last'.arg)
        /\ transcript'[Len(transcript) + 2].role = "agent"
        /\ transcript'[Len(transcript) + 2].text = PickMode
        /\ listFetches' = listFetches (+) SetToBag({runsHistory[historyIndex + 1]})
        /\ validationFetches' = validationFetches + 1
      ]_vars

\* the first submit of the page, made with the cursor on folder a and no
\* mode picked
C21_Witness ==
    /\ IsSend(last) /\ ~Blank(last.arg)
    /\ mode = "null" /\ ~fullUsed /\ chatRequests = {}
    /\ historyIndex = 1 /\ runsHistory[2] = <<"a">>
    /\ Len(transcript) = 2
    /\ transcript[1].role = "user"
    /\ transcript[2].text = PickMode
    /\ CopiesIn(<<"a">>, listFetches) >= 1
    /\ validationFetches = 1

====
